---- MODULE Spec2Model ----
(***************************************************************************)
(* Model of the reporting dashboard in src/app.py: one run of the script   *)
(* is the pipeline Load -> to_long -> sidebar filters -> mask -> metrics   *)
(* -> Overview / Customers / Services tabs.  Data frames are sequences of  *)
(* rows; a long row is a function over the columns Client, Job,            *)
(* Job description, Data type, Month, Value.                               *)
(*                                                                         *)
(* Dates are day numbers: month m (0-based) holds the days                 *)
(* m*DaysInMonth .. m*DaysInMonth + DaysInMonth - 1, and the first of a    *)
(* month is the day number divisible by DaysInMonth.  Money values are     *)
(* integers.                                                               *)
(***************************************************************************)
EXTENDS Integers, Sequences, FiniteSets, TLC

\* ------------------------------------------------------------------ bounds
\* Rows of a sheet (the sheets of RankTables have TopNMin + 1 rows).
MaxRows == 2
\* Days in a month of the model's calendar.
DaysInMonth == 2
\* The Top N slider is modelled from TopNMin to TopNMin + TopNSpan.
TopNSpan == 1

\* ------------------------------------------------------- program constants
\* st.slider("Top N", min_value=5, ...)
TopNMin == 5

ID_COLS == <<"Client", "Job", "Job description", "Data type">>

\* ---------------------------------------------------------------- helpers
Range(s) == {s[k] : k \in 1..Len(s)}

Min2(a, b) == IF a <= b THEN a ELSE b

RECURSIVE SumSeq(_)
SumSeq(s) == IF s = <<>> THEN 0 ELSE Head(s) + SumSeq(Tail(s))

RECURSIVE Flatten(_)
Flatten(ss) == IF ss = <<>> THEN <<>> ELSE Head(ss) \o Flatten(Tail(ss))

\* Python's ordering of the strings the model uses (upper case before lower).
StrOrder ==
    <<"A", "B", "C", "D", "E", "F", "J1", "J2", "S1", "S2", "T1", "T2", "nan">>

Ord(s) == CHOOSE k \in 1..Len(StrOrder) : StrOrder[k] = s

\* sorted(xs) for a set of integers (dates).
RECURSIVE SortedInts(_)
SortedInts(S) ==
    IF S = {} THEN <<>>
    ELSE LET m == CHOOSE x \in S : \A y \in S : x <= y
         IN  <<m>> \o SortedInts(S \ {m})

\* sorted(xs) for a set of strings.
RECURSIVE SortedStrs(_)
SortedStrs(S) ==
    IF S = {} THEN <<>>
    ELSE LET m == CHOOSE x \in S : \A y \in S : Ord(x) <= Ord(y)
         IN  <<m>> \o SortedStrs(S \ {m})

\* ------------------------------------------------------------------ cells
\* A spreadsheet cell as pandas reads it: blank (NaN), text, or a number.
NaN == "NaN"
Blank == [kind |-> "blank", s |-> "", v |-> 0]
Txt(s) == [kind |-> "text", s |-> s, v |-> 0]
Num(n) == [kind |-> "num", s |-> "", v |-> n]

\* A column header: a string, or a date (Timestamp / datetime / date).
StrCol(name) == [kind |-> "str", name |-> name, date |-> 0]
DateCol(d) == [kind |-> "date", name |-> "", date |-> d]

\* The value of an identifier cell in the frame: the text, or NaN when blank.
IdVal(c) == IF c.kind = "blank" THEN NaN ELSE c.s

\* Series.astype(str): a missing value becomes the string "nan".
AsStr(x) == IF x = NaN THEN "nan" ELSE x

\* Timestamp.to_period("M").to_timestamp(): the first day of the date's month.
FirstOfMonth(d) == d - (d % DaysInMonth)

\* The texts that parse as numbers, with their values.
NumericTexts == {"2"}
ParseText(s) == CASE s = "2" -> 2

\* Faulty variant of to_numeric: a negative number does not survive.
to_numeric_nonneg(c) ==
    CASE c.kind = "num" /\ c.v >= 0 -> [nan |-> FALSE, v |-> c.v]
      [] c.kind = "text" /\ c.s \in NumericTexts ->
            [nan |-> FALSE, v |-> ParseText(c.s)]
      [] OTHER -> [nan |-> TRUE, v |-> 0]

\* pd.to_numeric(errors="coerce"): a number, or NaN (nan = TRUE) when the cell
\* is blank or its text does not parse.
to_numeric(c) ==
    CASE c.kind = "num" -> [nan |-> FALSE, v |-> c.v]
      [] c.kind = "text" /\ c.s \in NumericTexts ->
            [nan |-> FALSE, v |-> ParseText(c.s)]
      [] OTHER -> [nan |-> TRUE, v |-> 0]

\* Series.fillna(d)
fillna(x, d) == IF x.nan THEN d ELSE x.v

\* ------------------------------------------------------------ to_long
HasCol(df, name) ==
    \E k \in 1..Len(df.columns) : df.columns[k] = StrCol(name)

ColIndex(df, name) ==
    CHOOSE k \in 1..Len(df.columns) : df.columns[k] = StrCol(name)

\* Faulty variant of missing_cols: only the first absent column is reported.
missing_cols_first(df) ==
    LET m == SelectSeq(ID_COLS, LAMBDA c : ~HasCol(df, c))
    IN  IF m = <<>> THEN <<>> ELSE <<m[1]>>

\* missing = [c for c in ID_COLS if c not in df.columns]
missing_cols(df) == SelectSeq(ID_COLS, LAMBDA c : ~HasCol(df, c))

\* The indices of the columns whose header is a date, in header order.
RECURSIVE DateColIdx(_, _)
DateColIdx(df, k) ==
    IF k > Len(df.columns) THEN <<>>
    ELSE (IF df.columns[k].kind = "date" THEN <<k>> ELSE <<>>)
         \o DateColIdx(df, k + 1)

\* Faulty variant of value_cols: one value column per calendar month (the
\* first).
value_cols_merged(df) ==
    SelectSeq(DateColIdx(df, 1),
              LAMBDA k : \A k2 \in 1..(k - 1) :
                  df.columns[k2].kind = "date" =>
                      df.columns[k2].date \div DaysInMonth
                          # df.columns[k].date \div DaysInMonth)

\* value_cols = [c for c in df.columns if isinstance(c, (Timestamp, ...))]
value_cols(df) == DateColIdx(df, 1)

\* detect_month_cols: the date headers, sorted.
detect_month_cols(df) ==
    SortedInts({df.columns[k].date : k \in Range(value_cols(df))})

\* One melted row: the identifier values of wide row i, the header of value
\* column k as Month and the cell under it as Value.
MeltRow(df, i, k) ==
    [c \in Range(ID_COLS) |-> IdVal(df.rows[i][ColIndex(df, c)])]
        @@ ("Month" :> df.columns[k].date)
        @@ ("Value" :> df.rows[i][k])

\* Faulty variant of melt: the wide rows one after the other, each with all
\* columns.
melt_row_major(df, vcols) ==
    Flatten([i \in 1..Len(df.rows) |->
                [j \in 1..Len(vcols) |-> MeltRow(df, i, vcols[j])]])

\* DataFrame.melt: the value columns one after the other, each with all rows.
melt(df, vcols) ==
    Flatten([j \in 1..Len(vcols) |->
                [i \in 1..Len(df.rows) |-> MeltRow(df, i, vcols[j])]])

ConvertRow(r) ==
    [r EXCEPT !["Month"] = FirstOfMonth(r["Month"]),
              !["Value"] = fillna(to_numeric(r["Value"]), 0)]

to_long_frame(df) ==
    LET m == melt(df, value_cols(df))
    IN  [n \in 1..Len(m) |-> ConvertRow(m[n])]

to_long_months(dl) == SortedInts({dl[n]["Month"] : n \in 1..Len(dl)})

to_long_raises(df) == missing_cols(df) # <<>> \/ detect_month_cols(df) = <<>>

\* ------------------------------------------------------------ sidebar
\* month_slider: the slider runs over the days from the first of the earliest
\* month to the first of the latest month, in steps of one day, and returns a
\* range (start <= end).
month_slider(min_m, max_m) ==
    LET min_d == FirstOfMonth(min_m)
        max_d == FirstOfMonth(max_m)
    IN  {<<s, e>> \in (min_d..max_d) \X (min_d..max_d) : s <= e}

\* sorted(df_long[col].dropna().astype(str).unique().tolist())
options(dl, col) ==
    SortedStrs({AsStr(dl[n][col]) : n \in {k \in 1..Len(dl) : dl[k][col] # NaN}})

\* What st.multiselect can return: the options the user left selected.
multiselect(opts) ==
    {SelectSeq(opts, LAMBDA o : o \in S) : S \in SUBSET Range(opts)}

\* multiselect_all: selected or options
multiselect_all(opts, selected) == IF selected = <<>> THEN opts ELSE selected

\* The slider "Top N": min_value=5, max_value=30; the model stops at
\* TopNMin + TopNSpan.
TopNs == TopNMin..(TopNMin + TopNSpan)

\* ------------------------------------------------------------ filter
month_pred(r, s, e) == r["Month"] >= s /\ r["Month"] <= e

isin_pred(r, col, sel) == AsStr(r[col]) \in Range(sel)

mask(r, s, e, types, clients, services) ==
    /\ month_pred(r, s, e)
    /\ isin_pred(r, "Data type", types)
    /\ isin_pred(r, "Client", clients)
    /\ isin_pred(r, "Job description", services)

filter_frame(dl, s, e, types, clients, services) ==
    SelectSeq(dl, LAMBDA r : mask(r, s, e, types, clients, services))

\* ------------------------------------------------------------ aggregation
Values(d) == [n \in 1..Len(d) |-> d[n]["Value"]]

\* groupby(col): the distinct non-missing keys, sorted (sort=True,
\* dropna=True).
group_keys_str(d, col) ==
    SortedStrs({d[n][col] : n \in {k \in 1..Len(d) : d[k][col] # NaN}})

group_keys_month(d) == SortedInts({d[n]["Month"] : n \in 1..Len(d)})

group_rows(d, col, key) == SelectSeq(d, LAMBDA r : r[col] = key)

\* Series.nunique(): the number of distinct non-missing values.
nunique(d, col) == Cardinality({d[n][col] : n \in 1..Len(d)} \ {NaN})

\* df.groupby(col, as_index=False)["Value"].sum() for a text column.
groupby_sum(d, col) ==
    LET ks == group_keys_str(d, col)
    IN  [n \in 1..Len(ks) |->
            (col :> ks[n]) @@ ("Value" :> SumSeq(Values(group_rows(d, col, ks[n]))))]

\* Faulty variant of revenue_by_month: each month keeps its first row's Value.
revenue_by_month_first(d) ==
    LET ks == group_keys_month(d)
    IN  [n \in 1..Len(ks) |->
            [Month |-> ks[n],
             Value |-> Values(group_rows(d, "Month", ks[n]))[1]]]

\* line_revenue_by_month: df_.groupby("Month", as_index=False)["Value"].sum()
revenue_by_month(d) ==
    LET ks == group_keys_month(d)
    IN  [n \in 1..Len(ks) |->
            [Month |-> ks[n],
             Value |-> SumSeq(Values(group_rows(d, "Month", ks[n])))]]

\* Sort keys are pairs, compared first by the first component.
KeyGt(a, b) == a[1] > b[1] \/ (a[1] = b[1] /\ a[2] > b[2])

\* The place of row n in the descending order of the keys: after the rows
\* with a greater key and after the earlier rows with an equal key.
SortPos(keys, n) ==
    1 + Cardinality({m \in 1..Len(keys) :
                        \/ KeyGt(keys[m], keys[n])
                        \/ ~KeyGt(keys[n], keys[m]) /\ m < n})

\* sort_values(..., ascending=False): rows with equal keys keep their order.
SortDesc(s, keys) ==
    [k \in 1..Len(s) |-> s[CHOOSE n \in 1..Len(s) : SortPos(keys, n) = k]]

\* Faulty variant of ValueKey: ascending order.
ValueKeyAscending(r) == <<0 - r["Value"], 0>>

\* The key of sort_values("Value", ascending=False).
ValueKey(r) == <<r["Value"], 0>>

\* The key of sort_values(["Usage", "Revenue"], ascending=False).
UsageRevenueKey(r) == <<r["Usage"], r["Revenue"]>>

\* DataFrame.head(n)
head(s, n) == SubSeq(s, 1, Min2(n, Len(s)))

\* insert(0, "Rank", arange(1, len + 1)) and rename Value -> Revenue.
rank_clients(s) ==
    [n \in 1..Len(s) |->
        [Rank |-> n, Client |-> s[n]["Client"], Revenue |-> s[n]["Value"]]]

client_ranking(d) ==
    LET g == groupby_sum(d, "Client")
    IN  SortDesc(g, [n \in 1..Len(g) |-> ValueKey(g[n])])

top_clients_table(d, n) == rank_clients(head(client_ranking(d), n))

cust_table(d) == rank_clients(client_ranking(d))

\* tmp = df_.loc[df_["Value"] > 0]; if tmp.empty: tmp = df_
positive_rows(d) == SelectSeq(d, LAMBDA r : r["Value"] > 0)

positive_or_all(d) == IF positive_rows(d) = <<>> THEN d ELSE positive_rows(d)

\* .sort_values(["Usage", "Revenue"], ascending=False)
sort_services(g) == SortDesc(g, [n \in 1..Len(g) |-> UsageRevenueKey(g[n])])

service_groups(p) ==
    LET ks == group_keys_str(p, "Job description")
    IN  [n \in 1..Len(ks) |->
            LET g == group_rows(p, "Job description", ks[n])
            IN  [Service |-> ks[n],
                 Revenue |-> SumSeq(Values(g)),
                 Usage |-> nunique(g, "Job"),
                 Jobs |-> nunique(g, "Job"),
                 Customers |-> nunique(g, "Client")]]

\* top_services_usage: the chart's data frame g.
top_services_usage(d, n) ==
    LET g == sort_services(service_groups(positive_or_all(d)))
    IN  head([k \in 1..Len(g) |->
                 [Service |-> g[k].Service, Usage |-> g[k].Usage,
                  Revenue |-> g[k].Revenue]], n)

service_stats_table(d) ==
    LET g == sort_services(service_groups(positive_or_all(d)))
    IN  [k \in 1..Len(g) |-> [Rank |-> k] @@ g[k]]

\* ------------------------------------------------------------ input files
\* Day d (0-based) of month m (0-based).
Day(m, d) == m * DaysInMonth + d

\* A sheet as read_excel returns it: the identifier columns that are
\* present (in the order of ID_COLS), a text column "Notes", then the date
\* columns.  ids[i] gives row i's four identifier cells, cells[i] its cells
\* under the date columns.
MkWide(present, dates, ids, cells) ==
    LET keep == SelectSeq(<<1, 2, 3, 4>>, LAMBDA k : ID_COLS[k] \in present)
    IN  [columns |->
            [k \in 1..Len(keep) |-> StrCol(ID_COLS[keep[k]])]
                \o <<StrCol("Notes")>>
                \o [k \in 1..Len(dates) |-> DateCol(dates[k])],
         rows |->
            [i \in 1..Len(ids) |->
                [k \in 1..Len(keep) |-> ids[i][keep[k]]]
                    \o <<Txt("x")>> \o cells[i]]]

IdCells(c, j, s, t) ==
    <<IF c = NaN THEN Blank ELSE Txt(c), IF j = NaN THEN Blank ELSE Txt(j),
      IF s = NaN THEN Blank ELSE Txt(s), IF t = NaN THEN Blank ELSE Txt(t)>>

\* Sheets with some identifier columns absent, or with no date column.
SchemaTables ==
    {MkWide(P, d, <<IdCells("A", "J1", "S1", "T1")>>,
            <<[k \in 1..Len(d) |-> Num(1)]>>) :
        P \in SUBSET Range(ID_COLS), d \in {<<>>, <<Day(0, 0)>>}}

\* The date headers of the well-formed sheets: one or several months, in
\* and out of order, several headers in one month, mid-month headers.
DateHeaders ==
    {<<Day(0, 0)>>, <<Day(0, 1)>>, <<Day(0, 0), Day(1, 0)>>,
     <<Day(1, 0), Day(0, 0)>>, <<Day(0, 0), Day(0, 1)>>,
     <<Day(1, 1), Day(0, 1)>>, <<Day(1, 0), Day(0, 0), Day(0, 1)>>}

\* Every kind of cell: numbers (positive, negative, zero), blank, text that
\* does not parse, text that does.
CellCycle == <<Num(1), Blank, Num(-1), Txt("x"), Num(0), Txt("2")>>

CycleCell(n) == CellCycle[(n % Len(CellCycle)) + 1]

\* Sheets for the reshape: 0..MaxRows rows of distinct clients under each
\* DateHeaders, the cells running through CellCycle from any start.
ReshapeTables ==
    {MkWide(Range(ID_COLS), d,
            [i \in 1..R |->
                IdCells(StrOrder[i], IF i % 2 = 1 THEN "J1" ELSE "J2", "S1", "T1")],
            [i \in 1..R |->
                [k \in 1..Len(d) |-> CycleCell(shift + (i - 1) * Len(d) + k - 1)]]) :
        d \in DateHeaders, R \in 0..MaxRows, shift \in 0..(Len(CellCycle) - 1)}

\* Sheets for the filter: rows whose identifier fields differ and may be
\* missing, over two months.
FilterIds ==
    {IdCells("A", "J1", "S1", "T1"), IdCells("B", "J1", "S2", "T2"),
     IdCells(NaN, "J1", "S1", "T1"), IdCells("A", "J2", NaN, "T1"),
     IdCells("B", "J2", "S1", NaN)}

FilterTables ==
    UNION {{MkWide(Range(ID_COLS), <<Day(0, 1), Day(1, 0)>>, ids,
                   [i \in 1..R |-> <<Num(1), Num(2)>>]) :
               ids \in [1..R -> FilterIds]} : R \in 1..MaxRows}

\* Sheets for the aggregations: one month, rows of two clients, two
\* services and two jobs with values below, at and above zero.
AggIds ==
    {IdCells("A", "J1", "S1", "T1"), IdCells("A", "J2", "S1", "T1"),
     IdCells("B", "J1", "S2", "T1")}

AggValues == {Num(-1), Num(0), Num(2)}

AggTables ==
    UNION {{MkWide(Range(ID_COLS), <<Day(0, 0)>>, ids,
                   [i \in 1..R |-> <<vals[i]>>]) :
               ids \in [1..R -> AggIds], vals \in [1..R -> AggValues]} :
           R \in 1..MaxRows}

\* Sheets with one client more than the smallest Top N: clients A, B, ...
\* each with one row; the first three hold 1 or 2, the next three repeat
\* them plus 1 (ties included).
RankTables ==
    {MkWide(Range(ID_COLS), <<Day(0, 0)>>,
            [i \in 1..(TopNMin + 1) |-> IdCells(StrOrder[i], "J1", "S1", "T1")],
            [i \in 1..(TopNMin + 1) |->
                <<Num(v[((i - 1) % 3) + 1] + ((i - 1) \div 3))>>]) :
        v \in [1..3 -> {1, 2}]}

WideTables ==
    SchemaTables \cup ReshapeTables \cup FilterTables \cup AggTables
        \cup RankTables

\* ------------------------------------------------------------ state
VARIABLES
    pc,                 \* where the script run is
    df_wide,            \* load_excel's frame
    df_long, months,    \* to_long's results
    error,              \* the exception that ended the run, if any
    start_m, end_m,     \* month_slider's result
    cleared,            \* the multiselects the user left empty
    selected_types, selected_clients, selected_services,
    top_n,
    dff,                \* the filtered frame
    metrics,            \* revenue_total, n_clients, n_services, n_jobs
    by_month,           \* line_revenue_by_month's frame m
    top_clients,
    top_services,       \* top_services_usage's frame g, when the chart is drawn
    overview_info,      \* st.info("No services with Value > 0 ...") was shown
    cust,
    service_stats,
    produced            \* the names of the results this run has produced

vars ==
    <<pc, df_wide, df_long, months, error, start_m, end_m, cleared,
      selected_types, selected_clients, selected_services, top_n, dff, metrics,
      by_month, top_clients, top_services, overview_info, cust, service_stats,
      produced>>

NoError == [kind |-> "none", missing |-> <<>>]
NoMetrics == [revenue_total |-> 0, n_clients |-> 0, n_services |-> 0, n_jobs |-> 0]
NoFrame == [columns |-> <<>>, rows |-> <<>>]

Init ==
    /\ pc = "start"
    /\ df_wide = NoFrame
    /\ df_long = <<>>
    /\ months = <<>>
    /\ error = NoError
    /\ start_m = 0
    /\ end_m = 0
    /\ cleared = {}
    /\ selected_types = <<>>
    /\ selected_clients = <<>>
    /\ selected_services = <<>>
    /\ top_n = 0
    /\ dff = <<>>
    /\ metrics = NoMetrics
    /\ by_month = <<>>
    /\ top_clients = <<>>
    /\ top_services = <<>>
    /\ overview_info = FALSE
    /\ cust = <<>>
    /\ service_stats = <<>>
    /\ produced = {}

\* df_wide = load_excel(file_bytes, sheet)
Load ==
    /\ pc = "start"
    /\ \E df \in WideTables : df_wide' = df
    /\ pc' = "loaded"
    /\ produced' = {"df_wide"}
    /\ UNCHANGED <<df_long, months, error, start_m, end_m, cleared,
                   selected_types, selected_clients, selected_services, top_n,
                   dff, metrics, by_month, top_clients, top_services,
                   overview_info, cust, service_stats>>

\* No upload and no default file: st.info(...); st.stop()
NoFile ==
    /\ pc = "start"
    /\ pc' = "stopped"
    /\ UNCHANGED <<df_wide, df_long, months, error, start_m, end_m, cleared,
                   selected_types, selected_clients, selected_services, top_n,
                   dff, metrics, by_month, top_clients, top_services,
                   overview_info, cust, service_stats, produced>>

\* to_long raises ValueError: identifier columns missing (checked first), or
\* no date header.  The exception ends the script run.
ToLongRaise ==
    /\ pc = "loaded"
    /\ to_long_raises(df_wide)
    /\ error' = [kind |-> IF missing_cols(df_wide) # <<>>
                              THEN "missing_columns" ELSE "no_month_columns",
                 missing |-> missing_cols(df_wide)]
    /\ pc' = "error"
    /\ UNCHANGED <<df_wide, df_long, months, start_m, end_m, cleared,
                   selected_types, selected_clients, selected_services, top_n,
                   dff, metrics, by_month, top_clients, top_services,
                   overview_info, cust, service_stats, produced>>

\* df_long, months = to_long(df_wide)
ToLong ==
    /\ pc = "loaded"
    /\ ~to_long_raises(df_wide)
    /\ df_long' = to_long_frame(df_wide)
    /\ months' = to_long_months(to_long_frame(df_wide))
    /\ pc' = "reshaped"
    /\ produced' = produced \cup {"df_long"}
    /\ UNCHANGED <<df_wide, error, start_m, end_m, cleared,
                   selected_types, selected_clients, selected_services, top_n,
                   dff, metrics, by_month, top_clients, top_services,
                   overview_info, cust, service_stats>>

\* min(months) on a sheet without rows: ValueError (min of an empty sequence).
MinMonthRaise ==
    /\ pc = "reshaped"
    /\ months = <<>>
    /\ error' = [kind |-> "min_of_empty", missing |-> <<>>]
    /\ pc' = "error"
    /\ UNCHANGED <<df_wide, df_long, months, start_m, end_m, cleared,
                   selected_types, selected_clients, selected_services, top_n,
                   dff, metrics, by_month, top_clients, top_services,
                   overview_info, cust, service_stats, produced>>

\* The sidebar widgets, then the mask: dff = df_long.loc[mask].copy()
Filter ==
    /\ pc = "reshaped"
    /\ months # <<>>
    /\ \E se \in month_slider(months[1], months[Len(months)]),
          st \in multiselect(options(df_long, "Data type")),
          sc \in multiselect(options(df_long, "Client")),
          ss \in multiselect(options(df_long, "Job description")),
          n \in TopNs :
          LET types == multiselect_all(options(df_long, "Data type"), st)
              clients == multiselect_all(options(df_long, "Client"), sc)
              services == multiselect_all(options(df_long, "Job description"), ss)
          IN  /\ start_m' = se[1]
              /\ end_m' = se[2]
              /\ cleared' = {w \in {"types", "clients", "services"} :
                                \/ w = "types" /\ st = <<>>
                                \/ w = "clients" /\ sc = <<>>
                                \/ w = "services" /\ ss = <<>>}
              /\ selected_types' = types
              /\ selected_clients' = clients
              /\ selected_services' = services
              /\ top_n' = n
              /\ dff' = filter_frame(df_long, se[1], se[2], types, clients, services)
    /\ pc' = "filtered"
    /\ produced' = produced \cup {"dff"}
    /\ UNCHANGED <<df_wide, df_long, months, error, metrics, by_month,
                   top_clients, top_services, overview_info, cust,
                   service_stats>>

\* if dff.empty: st.warning(...); st.stop()
StopEmpty ==
    /\ pc = "filtered"
    /\ dff = <<>>
    /\ pc' = "stopped"
    /\ UNCHANGED <<df_wide, df_long, months, error, start_m, end_m, cleared,
                   selected_types, selected_clients, selected_services, top_n,
                   dff, metrics, by_month, top_clients, top_services,
                   overview_info, cust, service_stats, produced>>

\* Faulty variant of Metrics: the empty check before it is missing.
MetricsNoEmptyCheck ==
    /\ pc = "filtered"
    /\ metrics' =
          [revenue_total |-> SumSeq(Values(dff)),
           n_clients |-> Len(SelectSeq(groupby_sum(dff, "Client"),
                                       LAMBDA r : r["Value"] > 0)),
           n_services |-> nunique(dff, "Job description"),
           n_jobs |-> nunique(dff, "Job")]
    /\ pc' = "metrics"
    /\ produced' = produced \cup {"metrics"}
    /\ UNCHANGED <<df_wide, df_long, months, error, start_m, end_m, cleared,
                   selected_types, selected_clients, selected_services, top_n,
                   dff, by_month, top_clients, top_services, overview_info,
                   cust, service_stats>>

\* revenue_total, client_rev, n_clients, n_services, n_jobs
Metrics ==
    /\ pc = "filtered"
    /\ dff # <<>>
    /\ metrics' =
          [revenue_total |-> SumSeq(Values(dff)),
           n_clients |-> Len(SelectSeq(groupby_sum(dff, "Client"),
                                       LAMBDA r : r["Value"] > 0)),
           n_services |-> nunique(dff, "Job description"),
           n_jobs |-> nunique(dff, "Job")]
    /\ pc' = "metrics"
    /\ produced' = produced \cup {"metrics"}
    /\ UNCHANGED <<df_wide, df_long, months, error, start_m, end_m, cleared,
                   selected_types, selected_clients, selected_services, top_n,
                   dff, by_month, top_clients, top_services, overview_info,
                   cust, service_stats>>

\* Tab Overview: the revenue line, the top customers, and the top services
\* chart unless no row has Value > 0.
Overview ==
    /\ pc = "metrics"
    /\ by_month' = revenue_by_month(dff)
    /\ top_clients' = top_clients_table(dff, top_n)
    /\ IF positive_rows(dff) = <<>>
          THEN /\ overview_info' = TRUE
               /\ top_services' = top_services
               /\ produced' = produced \cup {"by_month", "top_clients"}
          ELSE /\ overview_info' = FALSE
               /\ top_services' = top_services_usage(dff, top_n)
               /\ produced' = produced \cup {"by_month", "top_clients", "top_services"}
    /\ pc' = "overview"
    /\ UNCHANGED <<df_wide, df_long, months, error, start_m, end_m, cleared,
                   selected_types, selected_clients, selected_services, top_n,
                   dff, metrics, cust, service_stats>>

\* Tab Customers
Customers ==
    /\ pc = "overview"
    /\ cust' = cust_table(dff)
    /\ pc' = "customers"
    /\ produced' = produced \cup {"cust"}
    /\ UNCHANGED <<df_wide, df_long, months, error, start_m, end_m, cleared,
                   selected_types, selected_clients, selected_services, top_n,
                   dff, metrics, by_month, top_clients, top_services,
                   overview_info, service_stats>>

\* Tab Services
Services ==
    /\ pc = "customers"
    /\ service_stats' = service_stats_table(dff)
    /\ pc' = "done"
    /\ produced' = produced \cup {"service_stats"}
    /\ UNCHANGED <<df_wide, df_long, months, error, start_m, end_m, cleared,
                   selected_types, selected_clients, selected_services, top_n,
                   dff, metrics, by_month, top_clients, top_services,
                   overview_info, cust>>

\* Any interaction reruns the script from the top.
Rerun ==
    /\ pc \in {"done", "stopped", "error"}
    /\ pc' = "start"
    /\ df_wide' = NoFrame
    /\ df_long' = <<>>
    /\ months' = <<>>
    /\ error' = NoError
    /\ start_m' = 0
    /\ end_m' = 0
    /\ cleared' = {}
    /\ selected_types' = <<>>
    /\ selected_clients' = <<>>
    /\ selected_services' = <<>>
    /\ top_n' = 0
    /\ dff' = <<>>
    /\ metrics' = NoMetrics
    /\ by_month' = <<>>
    /\ top_clients' = <<>>
    /\ top_services' = <<>>
    /\ overview_info' = FALSE
    /\ cust' = <<>>
    /\ service_stats' = <<>>
    /\ produced' = {}

Next ==
    \/ Load
    \/ NoFile
    \/ ToLongRaise
    \/ ToLong
    \/ MinMonthRaise
    \/ Filter
    \/ StopEmpty
    \/ Metrics
    \/ Overview
    \/ Customers
    \/ Services
    \/ Rerun

Spec == Init /\ [][Next]_vars

\* ------------------------------------------------------------ the sheet,
\* read directly (not through to_long's helpers)
WideR == Len(df_wide.rows)

DateIdx == {k \in 1..Len(df_wide.columns) : df_wide.columns[k].kind = "date"}

WideM == Cardinality(DateIdx)

\* The column of the j-th date header, in header order.
NthDateCol(j) ==
    CHOOSE k \in DateIdx : Cardinality({k2 \in DateIdx : k2 < k}) = j - 1

AbsentIds ==
    {c \in Range(ID_COLS) :
        \A k \in 1..Len(df_wide.columns) :
            ~(df_wide.columns[k].kind = "str" /\ df_wide.columns[k].name = c)}

WideId(i, c) ==
    LET k == CHOOSE k \in 1..Len(df_wide.columns) :
                 df_wide.columns[k].kind = "str" /\ df_wide.columns[k].name = c
        cell == df_wide.rows[i][k]
    IN  IF cell.kind = "blank" THEN NaN ELSE cell.s

\* m is date d truncated to the first of its month.
TruncatesTo(m, d) == m <= d /\ m % DaysInMonth = 0 /\ d - m < DaysInMonth

\* The long row r carries wide row i's identifiers and date column j's month.
FromPair(r, i, j) ==
    /\ \A c \in Range(ID_COLS) : r[c] = WideId(i, c)
    /\ TruncatesTo(r["Month"], df_wide.columns[NthDateCol(j)].date)

Pairs == (1..WideR) \X (1..WideM)

\* The pairs that yield the same identifiers and Month as (i, j).
SameAs(i, j) ==
    {q \in Pairs :
        /\ \A c \in Range(ID_COLS) : WideId(q[1], c) = WideId(i, c)
        /\ df_wide.columns[NthDateCol(q[2])].date \div DaysInMonth
             = df_wide.columns[NthDateCol(j)].date \div DaysInMonth}

\* The number a cell stands for: its number, the number its text spells, or
\* 0 when it is blank or its text spells none.
CellNumber(c) ==
    IF c.kind = "num" THEN c.v
    ELSE IF c.kind = "text" /\ c.s = "2" THEN 2
    ELSE 0

\* ------------------------------------------------------------ claims

\* C1: when to_long returns (pc = "reshaped") on a sheet with the four
\* identifier columns, R rows and M >= 1 date headers, df_long has exactly R*M
\* rows, and for every (wide row, date header) pair the long rows that carry
\* that row's identifiers and that header's first-of-month are exactly as many
\* as the pairs that yield them: one long row per pair, headers of one
\* calendar month not merged.  to_long fails on no such sheet.
C1_OneLongRowPerPair ==
    /\ pc = "error" /\ error.kind \in {"missing_columns", "no_month_columns"} =>
          AbsentIds # {} \/ WideM = 0
    /\ pc = "reshaped" =>
        /\ WideM >= 1
        /\ Len(df_long) = WideR * WideM
        /\ \A p \in Pairs :
              Cardinality({n \in 1..Len(df_long) : FromPair(df_long[n], p[1], p[2])})
                  = Cardinality(SameAs(p[1], p[2]))

\* Witness of C1: two rows under three date headers, two of them in one month.
C1_Witness ==
    /\ pc = "reshaped"
    /\ WideR = 2
    /\ WideM = 3
    /\ Len(df_long) = 6
    /\ \E j1, j2 \in 1..WideM :
          /\ j1 # j2
          /\ df_wide.columns[NthDateCol(j1)].date \div DaysInMonth
               = df_wide.columns[NthDateCol(j2)].date \div DaysInMonth

\* C2: when to_long returns, every long row's Value is a number, and the long
\* row of wide row i and date column j holds 0 when that cell is blank or text
\* that spells no number, and the cell's own number (negative ones too)
\* otherwise.
C2_ValueCoercion ==
    pc = "reshaped" =>
        /\ \A n \in 1..Len(df_long) : df_long[n]["Value"] \in Int
        /\ \A p \in Pairs :
              LET cell == df_wide.rows[p[1]][NthDateCol(p[2])]
                  r == df_long[(p[2] - 1) * WideR + p[1]]
              IN  /\ cell.kind = "blank" => r["Value"] = 0
                  /\ cell.kind = "text" /\ cell.s = "x" => r["Value"] = 0
                  /\ cell.kind = "num" => r["Value"] = cell.v
                  /\ cell.kind = "text" /\ cell.s = "2" => r["Value"] = 2

\* Witness of C2: a reshaped sheet with a blank cell, a text cell and a
\* negative number.
C2_Witness ==
    /\ pc = "reshaped"
    /\ \E p1, p2, p3 \in Pairs :
          /\ df_wide.rows[p1[1]][NthDateCol(p1[2])] = Blank
          /\ df_wide.rows[p2[1]][NthDateCol(p2[2])] = Txt("x")
          /\ df_wide.rows[p3[1]][NthDateCol(p3[2])] = Num(-1)
          /\ df_long[(p3[2] - 1) * WideR + p3[1]]["Value"] = -1

\* C3 as stated: when to_long returns, the long rows are in row-major order,
\* the long row of wide row i and date column j at position (i - 1) * M + j.
C3_RowMajor ==
    pc = "reshaped" =>
        \A p \in Pairs :
            LET r == df_long[(p[1] - 1) * WideM + p[2]]
            IN  /\ FromPair(r, p[1], p[2])
                /\ r["Value"] = CellNumber(df_wide.rows[p[1]][NthDateCol(p[2])])

\* C3 amended: when to_long returns, the long rows are in column-major order:
\* all wide rows under the first date column (in header order), then all wide
\* rows under the second, and so on: the long row of wide row i and date
\* column j is at position (j - 1) * R + i.
C3_ColumnMajor ==
    pc = "reshaped" =>
        /\ Len(df_long) = WideR * WideM
        /\ \A p \in Pairs :
              LET r == df_long[(p[2] - 1) * WideR + p[1]]
              IN  /\ FromPair(r, p[1], p[2])
                  /\ r["Value"] = CellNumber(df_wide.rows[p[1]][NthDateCol(p[2])])

\* Witness of C3: two rows under two date headers of different months, out
\* of date order, the cells all different.
C3_Witness ==
    /\ pc = "reshaped"
    /\ WideR = 2
    /\ WideM = 2
    /\ df_wide.columns[NthDateCol(1)].date > df_wide.columns[NthDateCol(2)].date
    /\ df_long[1]["Month"] > df_long[3]["Month"]
    /\ df_long[1]["Client"] # df_long[2]["Client"]
    /\ Cardinality({df_long[n]["Value"] : n \in 1..4}) = 4

\* C4: a sheet that lacks an identifier column, or has no date header, never
\* gets past to_long: the run ends in the error, which for absent
\* identifier columns lists exactly those; no long table, no filtered table
\* and no aggregate is produced.
C4_SchemaErrorStops ==
    ("df_wide" \in produced /\ (AbsentIds # {} \/ DateIdx = {})) =>
        /\ pc \in {"loaded", "error"}
        /\ produced = {"df_wide"}
        /\ df_long = <<>> /\ dff = <<>>
        /\ pc = "error" =>
              /\ AbsentIds # {} =>
                    /\ error.kind = "missing_columns"
                    /\ Range(error.missing) = AbsentIds
                    /\ Len(error.missing) = Cardinality(AbsentIds)
              /\ AbsentIds = {} => error.kind = "no_month_columns"

\* Witness of C4: the run ended on a sheet lacking exactly "Job description"
\* and "Data type".
C4_Witness ==
    /\ pc = "error"
    /\ AbsentIds = {"Job description", "Data type"}
    /\ error.missing = <<"Job description", "Data type">>

\* The calendar month (0-based) of a date.
MonthOf(d) == d \div DaysInMonth

\* C5 as stated: dff holds exactly the long rows, unchanged and in order,
\* whose Month lies in the selected range of months (start and end compared
\* by their first-of-month, both ends included) and whose stringified
\* Data type, Client and Job description are in the selected sets.
C5_FilterByMonthRange ==
    "dff" \in produced =>
        dff = SelectSeq(df_long, LAMBDA r :
                  /\ MonthOf(start_m) <= MonthOf(r["Month"])
                  /\ MonthOf(r["Month"]) <= MonthOf(end_m)
                  /\ AsStr(r["Data type"]) \in Range(selected_types)
                  /\ AsStr(r["Client"]) \in Range(selected_clients)
                  /\ AsStr(r["Job description"]) \in Range(selected_services))

\* C6 as stated: a multiselect left empty restricts nothing: dff is the
\* result of the filter with that field's predicate removed, so rows with
\* any value in that field, a missing one too, pass it.
C6_EmptySelectionNoRestriction ==
    "dff" \in produced =>
        \A w \in cleared :
            dff = SelectSeq(df_long, LAMBDA r :
                      /\ r["Month"] >= start_m
                      /\ r["Month"] <= end_m
                      /\ w # "types" => AsStr(r["Data type"]) \in Range(selected_types)
                      /\ w # "clients" => AsStr(r["Client"]) \in Range(selected_clients)
                      /\ w # "services" =>
                            AsStr(r["Job description"]) \in Range(selected_services))

\* The sum of Value over the rows of dff whose column col holds x.
SumWhere(col, x) == SumSeq(Values(SelectSeq(dff, LAMBDA r : r[col] = x)))

DffMonths == {dff[n]["Month"] : n \in 1..Len(dff)}

\* C7: after the Overview tab (metrics and revenue-by-month computed), the
\* total revenue of the filtered table (the sum of Value over all
\* its rows) equals the sum of the revenues in revenue-by-month, which has
\* exactly one entry per distinct Month present, holding that month's sum.
C7_RevenueConservation ==
    pc = "overview" =>
        /\ metrics.revenue_total = SumSeq(Values(dff))
        /\ metrics.revenue_total = SumSeq([n \in 1..Len(by_month) |-> by_month[n].Value])
        /\ Len(by_month) = Cardinality(DffMonths)
        /\ {by_month[n].Month : n \in 1..Len(by_month)} = DffMonths
        /\ \A n \in 1..Len(by_month) :
              by_month[n].Value =
                  SumWhere("Month", by_month[n].Month)

\* Witness of C7: two months, one of them with several rows, values of
\* both signs.
C7_Witness ==
    /\ pc = "overview"
    /\ Len(by_month) = 2
    /\ Len(dff) >= 3
    /\ \E n \in 1..Len(dff) : dff[n]["Value"] < 0
    /\ \E n \in 1..Len(dff) : dff[n]["Value"] > 0
    /\ by_month[1].Value # 0 /\ by_month[2].Value # 0

DffClients == {dff[n]["Client"] : n \in 1..Len(dff)} \ {NaN}

\* What C8 says of the top customers besides their number: ranks by
\* position, revenue non-increasing, each client once with the sum of its
\* Values, and the full ranking when n covers all clients.
TopClientsRanked ==
    /\ \A k \in 1..Len(top_clients) : top_clients[k].Rank = k
    /\ \A k \in 1..(Len(top_clients) - 1) :
          top_clients[k].Revenue >= top_clients[k + 1].Revenue
    /\ \A k \in 1..Len(top_clients) :
          /\ top_clients[k].Client \in DffClients
          /\ top_clients[k].Revenue =
                SumWhere("Client", top_clients[k].Client)
    /\ Cardinality({top_clients[k].Client : k \in 1..Len(top_clients)})
          = Len(top_clients)
    /\ Len(cust) = Cardinality(DffClients)
    /\ top_n >= Cardinality(DffClients) => top_clients = cust

\* C8 as stated: after the Customers tab (top customers and full ranking
\* computed), the top-n customer table has the ranks 1..n, and the rest of
\* C8 holds.
C8_RanksOneToN ==
    pc = "customers" =>
        /\ Len(top_clients) = top_n
        /\ TopClientsRanked

\* C8 amended: after the Customers tab, the top-n customer table has the ranks
\* 1..min(n, number of distinct clients) assigned by position, revenue is non-
\* increasing as rank increases, each client's revenue is the sum of its
\* Values, and for n >= the number of distinct clients the table equals the
\* full ranking.
C8_TopClients ==
    pc = "customers" =>
        /\ Len(top_clients) = Min2(top_n, Cardinality(DffClients))
        /\ TopClientsRanked

\* Witness of C8: more clients than n, so that the table is cut, with a tie
\* in it.
C8_Witness ==
    /\ pc = "customers"
    /\ Cardinality(DffClients) > top_n
    /\ Len(top_clients) = top_n
    /\ \E k \in 1..(Len(top_clients) - 1) :
          top_clients[k].Revenue = top_clients[k + 1].Revenue
    /\ top_clients[1].Revenue > top_clients[Len(top_clients)].Revenue

DffServices == {dff[n]["Job description"] : n \in 1..Len(dff)} \ {NaN}

\* C9 as stated: when no filtered row has Value > 0, the Overview still
\* yields the top services by usage, computed from all rows: a non-empty
\* ranked table.
C9_FallbackRanksServices ==
    ("by_month" \in produced /\ \A n \in 1..Len(dff) : dff[n]["Value"] <= 0) =>
        /\ "top_services" \in produced
        /\ top_services # <<>>
        /\ Len(top_services) = Min2(top_n, Cardinality(DffServices))

\* C10 as stated: in service_stats every service's Usage is the number of
\* distinct Jobs of that service with a filtered row of Value > 0, Jobs
\* equals Usage, the rows are sorted descending by (Usage, Revenue) and
\* ranked 1..count, whether or not some filtered row has Value > 0.
C10_ServiceStats ==
    "service_stats" \in produced =>
        /\ \A k \in 1..Len(service_stats) :
              LET s == service_stats[k]
              IN  /\ s.Rank = k
                  /\ s.Jobs = s.Usage
                  /\ s.Usage =
                        Cardinality({dff[n]["Job"] :
                            n \in {m \in 1..Len(dff) :
                                      /\ dff[m]["Job description"] = s.Service
                                      /\ dff[m]["Value"] > 0}} \ {NaN})
        /\ \A k \in 1..(Len(service_stats) - 1) :
              \/ service_stats[k].Usage > service_stats[k + 1].Usage
              \/ /\ service_stats[k].Usage = service_stats[k + 1].Usage
                 /\ service_stats[k].Revenue >= service_stats[k + 1].Revenue

\* C11: whenever the run is at or past the metrics, the filtered table is not
\* empty; a run whose filter result is empty stops with no metric and no
\* table computed; and the full customer ranking and the service statistics
\* table, once computed, each hold at least one row.
C11_AggregationOnNonEmpty ==
    /\ pc \in {"metrics", "overview", "customers", "done"} => dff # <<>>
    /\ "metrics" \in produced => dff # <<>>
    /\ ("dff" \in produced /\ dff = <<>>) =>
          /\ pc \in {"filtered", "stopped"}
          /\ produced = {"df_wide", "df_long", "dff"}
    /\ "cust" \in produced => Len(cust) >= 1
    /\ "service_stats" \in produced => Len(service_stats) >= 1

\* Witness of C11: a finished run on a sheet one of whose rows has no
\* Client, the filter keeping rows of the other.
C11_Witness ==
    /\ pc = "done"
    /\ \E n \in 1..Len(df_long) : df_long[n]["Client"] = NaN
    /\ dff # <<>>
    /\ Len(dff) < Len(df_long)
    /\ Len(cust) = 1
    /\ Len(service_stats) = 1

====
